---- MODULE Spec2Model ----
(***************************************************************************)
(* Model of the programmatic chart engine of bill-ocr-v4                   *)
(* (src/App.tsx lines 245-509, the chartProcessor part of the file) and of *)
(* the workflow that calls it (src/services/aiService.ts, callOllama).     *)
(*                                                                         *)
(* Numbers: JavaScript numbers are modelled as exact fractions n/d with    *)
(* d > 0, extended with d = 0 for the IEEE specials: 1/0 is Infinity,      *)
(* -1/0 is -Infinity and 0/0 is NaN.  Rounding error of binary floating    *)
(* point is not modelled.                                                  *)
(*                                                                         *)
(* Text: a string is a sequence of one-character strings.                  *)
(***************************************************************************)
EXTENDS Integers, Sequences, FiniteSets, TLC

VARIABLES
    pc,               \* position of the run
    text,             \* classifier run: the text of the word being classified
    verdict,          \* classifier run: what the four predicates answered
    words,            \* allWords: the OCR words of the page
    potentialMonths,  \* findChartCandidates: month words sorted by x0
    i,                \* findChartCandidates: index of the outer loop
    monthGroup,       \* findChartCandidates: the group of the last iteration
    candidates,       \* findChartCandidates: the candidates pushed so far
    chart,            \* detectBarsForChart: the candidate being measured
    image,            \* the decoded source image (canvas pixel buffer)
    cal,              \* detectBarsForChart: yMin, yMax, valuePerPixel, zeroLineY
    m,                \* detectBarsForChart: index of the month loop
    usageData,        \* detectBarsForChart: rows pushed so far
    thrown,           \* detectBarsForChart: the error raised, "" when none
    worker,           \* processChart: state of the Tesseract worker
    c,                \* processChart: index of the candidate loop
    outcome,          \* processChart: per candidate, what detectBarsForChart did
    processedCharts,  \* processChart: the charts pushed so far
    logs,             \* levels of the ERROR/INFO entries processChart logged
    chartPromise,     \* the promise processChart returned: pending/fulfilled/rejected
    returned,         \* processChart: the value of its return statement
    firstRun,         \* what an earlier run on the same words and pixels gave
    ollama,           \* callOllama: position of the calling workflow
    finalJson,        \* callOllama: usageCharts of the parsed fusion response
    parsedData,       \* callOllama: usageCharts of the result it returns
    isLoading,        \* App: useState(false), line 20
    error,            \* App: the error message, "" for null
    capturedImage,    \* App: the data URL waiting for analysis, "" for null
    billData,         \* App: the bill on display
    history,          \* App: the saved bills, newest first
    analyses,         \* App: calls of analyzeBill that have not settled
    reads,            \* App: calls of fileToDataUrl that have not settled
    now               \* Date.now() of the last bill made

vars == <<pc, text, verdict, words, potentialMonths, i, monthGroup, candidates,
          chart, image, cal, m, usageData, thrown, worker, c, outcome,
          processedCharts, logs, chartPromise, returned, firstRun, ollama,
          finalJson, parsedData, isLoading, error, capturedImage, billData,
          history, analyses, reads, now>>

---------------------------------------------------------------------------
(* JavaScript numbers *)

RECURSIVE GCD(_, _)
GCD(a, b) == IF b = 0 THEN a ELSE GCD(b, a % b)

AbsInt(a) == IF a < 0 THEN -a ELSE a

SignInt(a) == IF a < 0 THEN -1 ELSE IF a > 0 THEN 1 ELSE 0

\* the fraction n/d in lowest terms, d > 0
Frac(n, d) ==
    IF d = 1 THEN [n |-> n, d |-> 1]
    ELSE LET g == GCD(AbsInt(n), AbsInt(d))
             s == IF d < 0 THEN -1 ELSE 1
         IN  [n |-> (s * n) \div g, d |-> (s * d) \div g]

Num(k) == [n |-> k, d |-> 1]

NaN == [n |-> 0, d |-> 0]

Infinity == [n |-> 1, d |-> 0]

isNaN(a) == a.d = 0 /\ a.n = 0

IsFinite(a) == a.d > 0

Neg(a) == [n |-> -a.n, d |-> a.d]

Add(a, b) ==
    IF isNaN(a) \/ isNaN(b) THEN NaN
    ELSE IF IsFinite(a) /\ IsFinite(b) THEN Frac(a.n * b.d + b.n * a.d, a.d * b.d)
    ELSE IF ~IsFinite(a) /\ ~IsFinite(b) THEN (IF a.n = b.n THEN a ELSE NaN)
    ELSE IF IsFinite(a) THEN b ELSE a

Sub(a, b) == Add(a, Neg(b))

Mul(a, b) ==
    IF isNaN(a) \/ isNaN(b) THEN NaN
    ELSE IF IsFinite(a) /\ IsFinite(b) THEN Frac(a.n * b.n, a.d * b.d)
    ELSE IF a.n = 0 \/ b.n = 0 THEN NaN
    ELSE [n |-> SignInt(a.n) * SignInt(b.n), d |-> 0]

\* the divisors of the program are differences and absolute values: their
\* zero is +0, so x / 0 has the sign of x
Div(a, b) ==
    IF isNaN(a) \/ isNaN(b) THEN NaN
    ELSE IF IsFinite(b) /\ b.n # 0
         THEN IF IsFinite(a) THEN Frac(a.n * b.d, a.d * b.n)
              ELSE [n |-> SignInt(a.n) * SignInt(b.n), d |-> 0]
    ELSE IF IsFinite(b)
         THEN IF a.n = 0 THEN NaN ELSE [n |-> SignInt(a.n), d |-> 0]
    ELSE IF IsFinite(a) THEN Num(0) ELSE NaN

Lt(a, b) ==
    IF isNaN(a) \/ isNaN(b) THEN FALSE
    ELSE IF ~IsFinite(a) /\ ~IsFinite(b) THEN a.n < b.n
    ELSE a.n * b.d < b.n * a.d

Gt(a, b) == Lt(b, a)

Eq(a, b) == ~isNaN(a) /\ ~isNaN(b) /\ a = b

Abs(a) == [n |-> AbsInt(a.n), d |-> a.d]

\* Math.floor
Floor(a) == IF IsFinite(a) THEN Num(a.n \div a.d) ELSE a

\* Math.round: the nearest integer, halves towards +Infinity
Round(a) == IF IsFinite(a) THEN Num((2 * a.n + a.d) \div (2 * a.d)) ELSE a

---------------------------------------------------------------------------
(* Text *)

Upper == <<"A", "B", "C", "D", "E", "F", "G", "H", "I", "J", "K", "L", "M",
           "N", "O", "P", "Q", "R", "S", "T", "U", "V", "W", "X", "Y", "Z">>

LowerCase == <<"a", "b", "c", "d", "e", "f", "g", "h", "i", "j", "k", "l", "m",
               "n", "o", "p", "q", "r", "s", "t", "u", "v", "w", "x", "y", "z">>

Digits == <<"0", "1", "2", "3", "4", "5", "6", "7", "8", "9">>

Range(s) == {s[k] : k \in DOMAIN s}

IsLowerLetter(ch) == ch \in Range(LowerCase)

IsDigit(ch) == ch \in Range(Digits)

DigitValue(ch) == (CHOOSE k \in DOMAIN Digits : Digits[k] = ch) - 1

\* String.prototype.toLowerCase, one character
LowerChar(ch) ==
    IF ch \in Range(Upper)
    THEN LowerCase[CHOOSE k \in DOMAIN Upper : Upper[k] = ch]
    ELSE ch

toLowerCase(s) == [k \in DOMAIN s |-> LowerChar(s[k])]

\* s.replace(/,/g, '')
StripCommas(s) == SelectSeq(s, LAMBDA ch : ch # ",")

\* s.replace(/[^a-z]/g, '')
KeepLowerLetters(s) == SelectSeq(s, IsLowerLetter)

\* String.prototype.startsWith
startsWith(s, prefix) ==
    Len(prefix) <= Len(s) /\ SubSeq(s, 1, Len(prefix)) = prefix

RECURSIVE SkipSpaces(_)
SkipSpaces(s) ==
    IF s # <<>> /\ Head(s) = " " THEN SkipSpaces(Tail(s)) ELSE s

\* the text after an optional sign, and the sign
Unsigned(s) == IF s # <<>> /\ Head(s) \in {"-", "+"} THEN Tail(s) ELSE s

SignOf(s) == IF s # <<>> /\ Head(s) = "-" THEN -1 ELSE 1

RECURSIVE DigitPrefix(_)
DigitPrefix(s) ==
    IF s # <<>> /\ IsDigit(Head(s)) THEN <<Head(s)>> \o DigitPrefix(Tail(s))
    ELSE <<>>

RECURSIVE DecimalValue(_, _)
DecimalValue(ds, acc) ==
    IF ds = <<>> THEN acc
    ELSE DecimalValue(Tail(ds), 10 * acc + DigitValue(Head(ds)))

\* parseInt(s, 10): the leading decimal digits after blanks and a sign,
\* NaN when there is none
parseInt(s) ==
    LET t  == SkipSpaces(s)
        ds == DigitPrefix(Unsigned(t))
    IN  IF ds = <<>> THEN NaN ELSE Num(SignOf(t) * DecimalValue(ds, 0))

\* isNaN(parseFloat(s)): parseFloat reads the longest prefix that is a
\* decimal literal (digits, '.', exponent) or Infinity; it is NaN exactly
\* when the text has no such prefix
parseFloatIsNaN(s) ==
    LET u == Unsigned(SkipSpaces(s))
    IN  ~ \/ (u # <<>> /\ IsDigit(Head(u)))
          \/ (Len(u) >= 2 /\ u[1] = "." /\ IsDigit(u[2]))
          \/ startsWith(u, <<"I", "n", "f", "i", "n", "i", "t", "y">>)

---------------------------------------------------------------------------
(* OCR words.  An OcrWord is [id, text, bbox]: id is the word's position in  *)
(* allWords and stands for the object identity Array.prototype.includes      *)
(* compares; the confidence field is read nowhere and is left out.           *)

Word(id, t, x0, y0, x1, y1) ==
    [id |-> id, text |-> t, bbox |-> [x0 |-> x0, y0 |-> y0, x1 |-> x1, y1 |-> y1]]

\* --- Text Classification and Filtering ---

MONTHS == << <<"j", "a", "n">>, <<"f", "e", "b">>, <<"m", "a", "r">>,
             <<"a", "p", "r">>, <<"m", "a", "y">>, <<"j", "u", "n">>,
             <<"j", "u", "l">>, <<"a", "u", "g">>, <<"s", "e", "p">>,
             <<"o", "c", "t">>, <<"n", "o", "v">>, <<"d", "e", "c">> >>

isMonthText(t) ==
    LET cleanText == KeepLowerLetters(toLowerCase(t))
    IN  \E k \in DOMAIN MONTHS : startsWith(MONTHS[k], cleanText)

isMonth(word) == isMonthText(word.text)

isNumberText(t) == ~parseFloatIsNaN(StripCommas(t))

isNumber(word) == isNumberText(word.text)

isYearText(t) == Len(t) = 4 /\ \A k \in DOMAIN t : IsDigit(t[k])

isYear(word) == isYearText(word.text)

\* the middle entry is the unit as the source file spells it: m, U+00C2, U+00B3
UNITS == { <<"k", "w", "h">>, <<"m", "U+00C2", "U+00B3">>,
           <<"t", "h", "e", "r", "m", "s">> }

isUnitText(t) == toLowerCase(t) \in UNITS

isUnit(word) == isUnitText(word.text)

\* --- Geometric Analysis Utilities ---

getCenter(bbox) ==
    [x |-> Frac(bbox.x0 + bbox.x1, 2), y |-> Frac(bbox.y0 + bbox.y1, 2)]

HorizontalTolerance == 10

VerticalTolerance == 30

LegendRadius == 300

UnitRadius == 100

\* mutant of isHorizontallyAligned: centres up to the tolerance apart, or a
\* pixel more, are aligned
isHorizontallyAligned_Loose(word1, word2, tolerance) ==
    ~Gt(Abs(Sub(getCenter(word1.bbox).y, getCenter(word2.bbox).y)), Num(tolerance + 1))

isHorizontallyAligned(word1, word2, tolerance) ==
    Lt(Abs(Sub(getCenter(word1.bbox).y, getCenter(word2.bbox).y)), Num(tolerance))

isVerticallyAligned(word1, word2, tolerance) ==
    Lt(Abs(Sub(getCenter(word1.bbox).x, getCenter(word2.bbox).x)), Num(tolerance))

\* distance(p1, p2) < radius, for radius >= 0: the square root is monotone
distanceBelow(p1, p2, radius) ==
    LET dx == Sub(p2.x, p1.x)
        dy == Sub(p2.y, p1.y)
    IN  Lt(Add(Mul(dx, dx), Mul(dy, dy)), Num(radius * radius))

\* Array.prototype.sort with the comparator key(a) - key(b), keys[k] being the
\* key of s[k]: the sort is stable, so an element's place is the number of
\* elements with a smaller key, or with the same key and an earlier position
StableSort(s, keys) ==
    LET place(k) == 1 + Cardinality({j \in DOMAIN s :
                        keys[j] < keys[k] \/ (keys[j] = keys[k] /\ j < k)})
    IN  [p \in DOMAIN s |-> s[CHOOSE k \in DOMAIN s : place(k) = p]]

\* sort((a, b) => a.bbox.x0 - b.bbox.x0)
SortByX0(s) == StableSort(s, [k \in DOMAIN s |-> s[k].bbox.x0])

\* sort((a, b) => b.bbox.y0 - a.bbox.y0)
SortByY0Descending(s) == StableSort(s, [k \in DOMAIN s |-> -s[k].bbox.y0])

RECURSIVE SumCenterY(_)
SumCenterY(s) ==
    IF s = <<>> THEN Num(0) ELSE Add(getCenter(Head(s).bbox).y, SumCenterY(Tail(s)))

Last(s) == s[Len(s)]

---------------------------------------------------------------------------
(* findChartCandidates *)

potentialMonthsOf(ws) == SortByX0(SelectSeq(ws, isMonth))

potentialYAxisOf(ws) == SortByY0Descending(SelectSeq(ws, isNumber))

potentialLegendsOf(ws) == SelectSeq(ws, isYear)

potentialUnitsOf(ws) == SelectSeq(ws, isUnit)

\* the inner loop: potentialMonths[k] and the later words aligned with it
MonthGroupAt(pm, k) ==
    <<pm[k]>> \o SelectSeq(SubSeq(pm, k + 1, Len(pm)),
                           LAMBDA w : isHorizontallyAligned(pm[k], w, HorizontalTolerance))

\* c.months.includes(word): the same object
includes(ws, word) == \E k \in DOMAIN ws : ws[k].id = word.id

\* mutant of GroupAccepted: a minimum of 3 aligned months
GroupAccepted_ThreeMonths(group, cands) ==
    Len(group) > 2 /\ ~ \E q \in DOMAIN cands : includes(cands[q].months, group[1])

\* monthGroup.length > 3 && !candidates.some(c => c.months.includes(monthGroup[0]))
GroupAccepted(group, cands) ==
    Len(group) > 3 /\ ~ \E q \in DOMAIN cands : includes(cands[q].months, group[1])

AssociatedYAxis(pY, sortedMonths) ==
    SelectSeq(pY, LAMBDA y :
        /\ isVerticallyAligned(y, sortedMonths[1], VerticalTolerance)
        /\ y.bbox.x1 < sortedMonths[1].bbox.x0)

\* associatedYAxis.length > 1
YAxisAccepted(yAxis) == Len(yAxis) > 1

\* the object pushed on candidates; unit is a sequence of at most one word
\* (empty for undefined)
NewCandidate(id, sortedMonths, yAxis, ws) ==
    LET avgY   == Div(SumCenterY(sortedMonths), Num(Len(sortedMonths)))
        bounds == [x0 |-> Num(yAxis[1].bbox.x0), y0 |-> Num(Last(yAxis).bbox.y0),
                   x1 |-> Num(Last(sortedMonths).bbox.x1), y1 |-> avgY]
        chartCenter == [x |-> Div(Add(bounds.x0, bounds.x1), Num(2)),
                        y |-> Div(Add(bounds.y0, bounds.y1), Num(2))]
        associatedLegend ==
            SelectSeq(potentialLegendsOf(ws), LAMBDA l :
                distanceBelow(getCenter(l.bbox), chartCenter, LegendRadius))
        nearUnits ==
            SelectSeq(potentialUnitsOf(ws), LAMBDA u :
                distanceBelow(getCenter(u.bbox),
                              [x |-> bounds.x0, y |-> chartCenter.y], UnitRadius))
    IN  [id |-> id, months |-> sortedMonths, yAxis |-> yAxis,
         legend |-> SortByX0(associatedLegend), title |-> <<>>,
         unit |-> IF nearUnits = <<>> THEN <<>> ELSE <<Head(nearUnits)>>,
         bounds |-> bounds]

\* one iteration of the outer loop, for potentialMonths[k]: the candidates after it
\* mutant of chartId: the counter is kept between runs
chartId_Shared(cands) == Len(cands) + Len(firstRun.candidates)

\* let chartId = 0 ... id: chartId++ : the number of candidates pushed so far
chartId(cands) == Len(cands)

CandidatesAfter(ws, pm, k, cands) ==
    LET group == MonthGroupAt(pm, k)
        sortedMonths == SortByX0(group)
        yAxis == AssociatedYAxis(potentialYAxisOf(ws), sortedMonths)
    IN  IF GroupAccepted(group, cands) /\ YAxisAccepted(yAxis)
        THEN Append(cands, NewCandidate(chartId(cands), sortedMonths, yAxis, ws))
        ELSE cands

RECURSIVE FindFrom(_, _, _, _)
FindFrom(ws, pm, k, cands) ==
    IF k > Len(pm) THEN cands
    ELSE FindFrom(ws, pm, k + 1, CandidatesAfter(ws, pm, k, cands))

findChartCandidates(ws) == FindFrom(ws, potentialMonthsOf(ws), 1, <<>>)

---------------------------------------------------------------------------
(* The pixel buffer.  An image is [width, height, rects]: white background   *)
(* and filled rectangles [x0, x1, y0, y1, rgb] (inclusive pixel ranges, the  *)
(* first rectangle that holds a pixel gives its colour).  imageData.data is  *)
(* the flat RGBA array of the canvas, row by row.                            *)

White == <<255, 255, 255>>

RECURSIVE ColourIn(_, _, _)
ColourIn(rects, x, y) ==
    IF rects = <<>> THEN White
    ELSE IF /\ Head(rects).x0 <= x /\ x <= Head(rects).x1
            /\ Head(rects).y0 <= y /\ y <= Head(rects).y1
         THEN Head(rects).rgb
    ELSE ColourIn(Tail(rects), x, y)

PixelRGB(img, x, y) == ColourIn(img.rects, x, y)

\* imageData.data[index]: undefined (NaN in a comparison) outside the array
DataAt(img, index) ==
    IF IsFinite(index) /\ index.d = 1 /\ index.n >= 0
       /\ index.n < 4 * img.width * img.height
    THEN LET p == index.n \div 4
             ch == index.n % 4
             px == PixelRGB(img, p % img.width, p \div img.width)
         IN  IF ch + 1 > Len(px) THEN Num(255)
             ELSE Num(px[ch + 1])
    ELSE NaN

DarkThreshold == 240

isDarkPixel(img, index) ==
    LET r == DataAt(img, index)
        g == DataAt(img, Add(index, Num(1)))
        b == DataAt(img, Add(index, Num(2)))
    IN  Lt(r, Num(DarkThreshold)) /\ Lt(g, Num(DarkThreshold)) /\ Lt(b, Num(DarkThreshold))

---------------------------------------------------------------------------
(* detectBarsForChart *)

\* chart.yAxis.map(...).filter(v => !isNaN(v.value)).sort((a, b) => a.value - b.value)
YValues(ch) ==
    LET mapped == [k \in DOMAIN ch.yAxis |->
                      [value |-> parseInt(StripCommas(ch.yAxis[k].text)),
                       y |-> getCenter(ch.yAxis[k].bbox).y]]
        kept == SelectSeq(mapped, LAMBDA v : ~isNaN(v.value))
    IN  StableSort(kept, [k \in DOMAIN kept |-> kept[k].value.n])

\* the guard of the throw: yValues.length < 2
InsufficientYAxis(yValues) == Len(yValues) < 2

\* mutant of ZeroLineY: the row of the lowest label taken as the zero line
ZeroLineY_Baseline(yMin, yMax, valueRange, pixelRange) == yMin.y

\* zeroLineY = yMin.value === 0 ? yMin.y : yMax.y + ((yMax.value / valueRange) * pixelRange)
ZeroLineY(yMin, yMax, valueRange, pixelRange) ==
    IF Eq(yMin.value, Num(0)) THEN yMin.y
    ELSE Add(yMax.y, Mul(Div(yMax.value, valueRange), pixelRange))

\* mutant of Calibration: the scale taken from valueMax alone, as if the
\* lowest label were 0
Calibration_ScaleFromZero(yValues) ==
    LET yMin == yValues[1]
        yMax == Last(yValues)
        pixelRange == Abs(Sub(yMin.y, yMax.y))
        valueRange == Sub(yMax.value, yMin.value)
    IN  [yMin |-> yMin, yMax |-> yMax,
         valuePerPixel |-> Div(yMax.value, pixelRange),
         zeroLineY |-> ZeroLineY(yMin, yMax, valueRange, pixelRange)]

\* the Y-axis scale of lines 398-403
Calibration(yValues) ==
    LET yMin == yValues[1]
        yMax == Last(yValues)
        pixelRange == Abs(Sub(yMin.y, yMax.y))
        valueRange == Sub(yMax.value, yMin.value)
    IN  [yMin |-> yMin, yMax |-> yMax,
         valuePerPixel |-> Div(valueRange, pixelRange),
         zeroLineY |-> ZeroLineY(yMin, yMax, valueRange, pixelRange)]

\* Math.max(1, years.length)
NumYears(ch) == IF Len(ch.legend) > 1 THEN Len(ch.legend) ELSE 1

\* scanX of series k (from 0) of a month
ScanX(month, k, numYears) ==
    LET barWidthGuess == Div(Num(month.bbox.x1 - month.bbox.x0), Num(numYears))
    IN  Round(Add(Add(Num(month.bbox.x0), Mul(Num(k), barWidthGuess)),
                  Div(barWidthGuess, Num(2))))

\* the rows hi, hi - 1, ..., lo visited in that order: the first whose pixel
\* at column scanX is dark, -1 when there is none (the visit is split in
\* halves, upper half first, to keep the evaluation shallow)
RECURSIVE FirstDarkDown(_, _, _, _)
FirstDarkDown(img, scanX, lo, hi) ==
    IF lo > hi THEN Num(-1)
    ELSE IF lo = hi
         THEN IF isDarkPixel(img, Mul(Add(Mul(Num(hi), Num(img.width)), scanX), Num(4)))
              THEN Num(hi) ELSE Num(-1)
    ELSE LET mid == (lo + hi) \div 2
             upper == FirstDarkDown(img, scanX, mid + 1, hi)
         IN  IF upper # Num(-1) THEN upper ELSE FirstDarkDown(img, scanX, lo, mid)

\* the scan loop from row y: for (...; y > chartArea.y0; y--), for a start
\* other than Infinity; NaN and -Infinity fail the loop test at once
ScanUp(img, scanX, y, areaY0) ==
    IF ~IsFinite(y) THEN Num(-1)
    ELSE FirstDarkDown(img, scanX, Floor(areaY0).n + 1, y.n)

\* the loop never ends when it starts at Infinity: Infinity > y0 holds, y--
\* leaves Infinity, and data[Infinity] is undefined, so never dark
ScanDiverges(k) == Floor(k.zeroLineY) = Infinity

BarTopY(img, scanX, k) == ScanUp(img, scanX, Floor(k.zeroLineY), k.yMax.y)

\* mutant of BarValue: the value is not rounded
BarValue_Unrounded(k, barTopY) ==
    IF barTopY # Num(-1)
    THEN Mul(Sub(k.zeroLineY, barTopY), k.valuePerPixel)
    ELSE Num(0)

\* the value pushed for a column: Math.round(pixelHeight * valuePerPixel), or 0
BarValue(k, barTopY) ==
    IF barTopY # Num(-1)
    THEN Round(Mul(Sub(k.zeroLineY, barTopY), k.valuePerPixel))
    ELSE Num(0)

RECURSIVE DecimalText(_)
DecimalText(n) ==
    IF n < 10 THEN <<Digits[n + 1]>>
    ELSE DecimalText(n \div 10) \o <<Digits[(n % 10) + 1]>>

\* mutant of YearLabel: the placeholder whatever the legend holds
YearLabel_Placeholder(ch, k) == <<"Y", "e", "a", "r", " ">> \o DecimalText(k + 1)

\* years[i] || `Year ${i+1}`
YearLabel(ch, k) ==
    IF k + 1 <= Len(ch.legend) /\ ch.legend[k + 1].text # <<>>
    THEN ch.legend[k + 1].text
    ELSE <<"Y", "e", "a", "r", " ">> \o DecimalText(k + 1)

\* the body of the month loop: the row pushed on usageData
MonthRow(img, ch, k, month) ==
    [month |-> month.text,
     usage |-> [s \in 1 .. NumYears(ch) |->
                   [year |-> YearLabel(ch, s - 1),
                    value |-> BarValue(k, BarTopY(img, ScanX(month, s - 1, NumYears(ch)), k))]]]

\* the UsageChartData returned
ChartData(ch, rows) ==
    [title |-> IF ch.title # <<>> THEN ch.title
               ELSE <<"U", "s", "a", "g", "e", " ", "C", "h", "a", "r", "t", " ">>
                    \o DecimalText(ch.id),
     unit |-> IF ch.unit # <<>> /\ ch.unit[1].text # <<>> THEN ch.unit[1].text
              ELSE <<"U", "n", "i", "t", "s">>,
     data |-> rows]

\* What the browser does for one call: whether img.onload ever fires and
\* whether canvas.getContext('2d') returns a context.
DetectEnvs == [imageLoads : BOOLEAN, context : BOOLEAN]

\* detectBarsForChart as a whole: how its promise settles.  "pending" is a
\* promise that never settles (onload never fires, or the scan loop spins).
detectBarsForChart(img, ch, e) ==
    IF ~e.imageLoads THEN [state |-> "pending", at |-> "onload"]
    ELSE IF ~e.context THEN [state |-> "rejected", error |-> "Could not get canvas context."]
    ELSE IF InsufficientYAxis(YValues(ch))
         THEN [state |-> "rejected", error |-> "insufficient Y-axis labels"]
    ELSE LET k == Calibration(YValues(ch))
         IN  IF ScanDiverges(k) THEN [state |-> "pending", at |-> "scan"]
             ELSE [state |-> "fulfilled",
                   value |-> ChartData(ch, [q \in DOMAIN ch.months |->
                                               MonthRow(img, ch, k, ch.months[q])])]

---------------------------------------------------------------------------
(* Inputs of the calibration and detectBarsForChart runs: candidates as     *)
(* findChartCandidates builds them (at least 4 months, at least 2 y-axis     *)
(* words left of the first month, sorted by y0 descending) and synthetic     *)
(* rasters.                                                                  *)

MaxLabels == 2

\* a word without an id: pages number their words by position
Proto(t, x0, y0, x1, y1) == Word(0, t, x0, y0, x1, y1)

Numbered(ws) == [k \in DOMAIN ws |-> [ws[k] EXCEPT !.id = k]]

LabelTexts == { <<"0">>, <<"1", "0", "0">>, <<"5", "0", "0">>, <<".", "5">>,
                <<"-", "1", "0", "0">>, <<"-", "5", "0", "0">> }

\* top edges of the label boxes: centres at y = 100, 300 and 250.5
LabelBoxes == { [y0 |-> 95, y1 |-> 105], [y0 |-> 295, y1 |-> 305],
                [y0 |-> 245, y1 |-> 256] }

Labels == { Proto(t, 36, b.y0, 49, b.y1) : t \in LabelTexts, b \in LabelBoxes }

RECURSIVE SeqsUpTo(_, _)
SeqsUpTo(S, n) ==
    IF n = 0 THEN {<<>>}
    ELSE LET shorter == SeqsUpTo(S, n - 1)
         IN  shorter \cup {Append(q, x) : q \in shorter, x \in S}

\* potentialYAxis is sorted by y0 descending, and so is every filter of it
SortedDown(q) == \A k \in 1 .. Len(q) - 1 : q[k].bbox.y0 >= q[k + 1].bbox.y0

\* the y-axis words of the calibration runs
LabelRuns == {q \in SeqsUpTo(Labels, MaxLabels) : Len(q) >= 2 /\ SortedDown(q)}

\* the y-axis words of the detectBarsForChart runs: two labels at y = 100, 300
ScanLabelRuns ==
    {q \in SeqsUpTo({l \in Labels : l.bbox.y0 \in {95, 295}}, 2) :
        Len(q) = 2 /\ SortedDown(q)}

MonthRowWide ==
    << Proto(<<"O", "c", "t">>, 50, 310, 90, 320),
       Proto(<<"N", "o", "v">>, 100, 310, 140, 320),
       Proto(<<"D", "e", "c">>, 150, 310, 190, 320),
       Proto(<<"J", "a", "n">>, 200, 310, 240, 320) >>

\* the last label is one pixel wide and ends at x = 240
MonthRowEdge ==
    << Proto(<<"O", "c", "t">>, 50, 310, 90, 320),
       Proto(<<"N", "o", "v">>, 100, 310, 140, 320),
       Proto(<<"D", "e", "c">>, 150, 310, 190, 320),
       Proto(<<"|">>, 239, 310, 240, 320) >>

MonthRows == {MonthRowWide, MonthRowEdge}

LegendRows ==
    { <<>>,
      << Proto(<<"2", "0", "2", "3">>, 100, 60, 130, 70) >>,
      << Proto(<<"2", "0", "2", "3">>, 100, 60, 130, 70),
         Proto(<<"2", "0", "2", "4">>, 140, 60, 170, 70) >> }

\* the one candidate findChartCandidates returns for these words
CandidateOf(labels, months, legend) ==
    Head(findChartCandidates(Numbered(labels \o months \o legend)))

CalibrationCharts == {CandidateOf(l, MonthRowWide, <<>>) : l \in LabelRuns}

DetectCharts ==
    {CandidateOf(l, ms, lg) : l \in ScanLabelRuns, ms \in MonthRows, lg \in LegendRows}

Black == <<0, 0, 0>>

Rect(x0, x1, y0, y1, rgb) == [x0 |-> x0, x1 |-> x1, y0 |-> y0, y1 |-> y1, rgb |-> rgb]

BlankImage == [width |-> 300, height |-> 400, rects |-> <<>>]

\* a bar over the first month, from y = 200 down past the zero line
BarImage == [width |-> 300, height |-> 400, rects |-> <<Rect(55, 85, 200, 360, Black)>>]

\* a dark block that ends above the zero line
BlockImage == [width |-> 300, height |-> 400, rects |-> <<Rect(55, 85, 200, 250, Black)>>]

\* a page 240 pixels wide with a dark strip along its left edge
EdgeImage == [width |-> 240, height |-> 400, rects |-> <<Rect(0, 2, 0, 250, Black)>>]

DetectImages == {BlankImage, BarImage, BlockImage, EdgeImage}

\* the words of a candidate lie inside the image they were read from
FitsImage(ch, img) ==
    /\ \A k \in DOMAIN ch.months : ch.months[k].bbox.x1 <= img.width
    /\ \A k \in DOMAIN ch.months : ch.months[k].bbox.y1 <= img.height

NoCal == [yMin |-> [value |-> NaN, y |-> NaN], yMax |-> [value |-> NaN, y |-> NaN],
          valuePerPixel |-> NaN, zeroLineY |-> NaN]

---------------------------------------------------------------------------
(* Variables a run does not use keep these values. *)

classVars == <<text, verdict>>

findVars == <<words, potentialMonths, i, monthGroup, candidates>>

detectVars == <<chart, image, cal, m, usageData, thrown>>

fusionVars == <<finalJson, parsedData>>

appVars == <<isLoading, error, capturedImage, billData, history, analyses, reads, now>>

procVars == <<worker, c, outcome, processedCharts, logs, chartPromise, returned,
              firstRun, ollama, fusionVars, appVars>>

NoChart == [id |-> 0, months |-> <<>>, yAxis |-> <<>>, legend |-> <<>>, title |-> <<>>,
            unit |-> <<>>, bounds |-> [x0 |-> NaN, y0 |-> NaN, x1 |-> NaN, y1 |-> NaN]]

ClassIdle == text = <<>> /\ verdict = <<>>

FindIdle ==
    /\ words = <<>> /\ potentialMonths = <<>> /\ i = 0
    /\ monthGroup = <<>> /\ candidates = <<>>

DetectIdle ==
    /\ chart = NoChart /\ image = BlankImage /\ cal = NoCal
    /\ m = 0 /\ usageData = <<>> /\ thrown = ""

\* no earlier run
NoRun == [done |-> FALSE, candidates |-> <<>>, outcome |-> <<>>, charts |-> <<>>]

\* no fusion response yet
FusionIdle == finalJson = <<>> /\ parsedData = <<>>

\* no bill: billData is null
NoBill == [id |-> 0, rev |-> 0]

AppIdle ==
    /\ isLoading = FALSE /\ error = "" /\ capturedImage = "" /\ billData = NoBill
    /\ history = <<>> /\ analyses = 0 /\ reads = 0 /\ now = 0

\* no analysis workflow is running
WorkflowIdle ==
    /\ FusionIdle
    /\ firstRun = NoRun
    /\ worker = "none" /\ c = 0 /\ outcome = <<>> /\ processedCharts = <<>>
    /\ logs = <<>> /\ chartPromise = "none" /\ returned = <<>> /\ ollama = "none"

ProcIdle == WorkflowIdle /\ AppIdle

---------------------------------------------------------------------------
(* A run of detectBarsForChart, one step per await, throw and month. *)

DetectInit ==
    /\ pc = "detect.start"
    /\ chart \in DetectCharts
    /\ image \in DetectImages
    /\ FitsImage(chart, image)
    /\ cal = NoCal /\ m = 0 /\ usageData = <<>> /\ thrown = ""
    /\ ClassIdle /\ FindIdle /\ ProcIdle

\* lines 380-388: the image is decoded and drawn on a canvas
DetectLoad ==
    /\ pc = "detect.start"
    /\ \E e \in DetectEnvs :
          IF ~e.imageLoads
          THEN pc' = "detect.waiting" /\ thrown' = thrown
          ELSE IF ~e.context
          THEN pc' = "detect.rejected" /\ thrown' = "Could not get canvas context."
          ELSE pc' = "detect.calibrate" /\ thrown' = thrown
    /\ UNCHANGED <<chart, image, cal, m, usageData>>
    /\ UNCHANGED <<classVars, findVars, procVars>>

\* lines 390-405: the Y-axis scale
DetectCalibrate ==
    /\ pc = "detect.calibrate"
    /\ IF InsufficientYAxis(YValues(chart))
       THEN /\ pc' = "detect.rejected"
            /\ thrown' = "insufficient Y-axis labels"
            /\ UNCHANGED <<cal, m>>
       ELSE /\ pc' = "detect.scan"
            /\ cal' = Calibration(YValues(chart))
            /\ m' = 1
            /\ thrown' = thrown
    /\ UNCHANGED <<chart, image, usageData>>
    /\ UNCHANGED <<classVars, findVars, procVars>>

\* lines 420-448: one month, all its series
DetectScanMonth ==
    /\ pc = "detect.scan"
    /\ m <= Len(chart.months)
    /\ ~ScanDiverges(cal)
    /\ usageData' = Append(usageData, MonthRow(image, chart, cal, chart.months[m]))
    /\ m' = m + 1
    /\ UNCHANGED <<pc, chart, image, cal, thrown>>
    /\ UNCHANGED <<classVars, findVars, procVars>>

\* lines 429-435 with y = Infinity: the loop goes round without end
DetectSpin ==
    /\ pc \in {"detect.scan", "detect.spinning"}
    /\ m <= Len(chart.months)
    /\ ScanDiverges(cal)
    /\ pc' = "detect.spinning"
    /\ UNCHANGED <<chart, image, cal, m, usageData, thrown>>
    /\ UNCHANGED <<classVars, findVars, procVars>>

\* lines 450-454
DetectReturn ==
    /\ pc = "detect.scan"
    /\ m > Len(chart.months)
    /\ pc' = "detect.fulfilled"
    /\ UNCHANGED <<chart, image, cal, m, usageData, thrown>>
    /\ UNCHANGED <<classVars, findVars, procVars>>

DetectNext ==
    \/ DetectLoad
    \/ DetectCalibrate
    \/ DetectScanMonth
    \/ DetectSpin
    \/ DetectReturn

SpecDetect == DetectInit /\ [][DetectNext]_vars

---------------------------------------------------------------------------
(* The Y-axis scale alone (lines 390-403), over every run of labels. *)

CalibrateInit ==
    /\ pc = "calibrate.start"
    /\ chart \in CalibrationCharts
    /\ image = BlankImage /\ cal = NoCal /\ m = 0 /\ usageData = <<>> /\ thrown = ""
    /\ ClassIdle /\ FindIdle /\ ProcIdle

Calibrate ==
    /\ pc = "calibrate.start"
    /\ IF InsufficientYAxis(YValues(chart))
       THEN /\ pc' = "calibrate.rejected"
            /\ thrown' = "insufficient Y-axis labels"
            /\ cal' = cal
       ELSE /\ pc' = "calibrate.done"
            /\ cal' = Calibration(YValues(chart))
            /\ thrown' = thrown
    /\ UNCHANGED <<chart, image, m, usageData>>
    /\ UNCHANGED <<classVars, findVars, procVars>>

CalibrateNext == Calibrate

SpecCalibrate == CalibrateInit /\ [][CalibrateNext]_vars

---------------------------------------------------------------------------
(* The four word predicates applied to one text. *)

MaxTextLen == 3

ClassifyAlphabet == {"J", "a", "n", "u", "1", ".", ","}

ClassifyInit ==
    /\ pc = "classify.start"
    /\ text \in SeqsUpTo(ClassifyAlphabet, MaxTextLen)
    /\ verdict = <<>>
    /\ FindIdle /\ DetectIdle /\ ProcIdle

Classify ==
    /\ pc = "classify.start"
    /\ pc' = "classify.done"
    /\ verdict' = [month |-> isMonthText(text), number |-> isNumberText(text),
                   year |-> isYearText(text), unit |-> isUnitText(text)]
    /\ UNCHANGED text
    /\ UNCHANGED <<findVars, detectVars, procVars>>

ClassifyNext == Classify

SpecClassify == ClassifyInit /\ [][ClassifyNext]_vars

---------------------------------------------------------------------------
(* Pages for findChartCandidates: every choice of at most MaxPageWords words *)
(* from a row of month labels whose centres lie at y = 400, 406 and 412      *)
(* (alignment within 10 pixels is not transitive over them), two columns of  *)
(* y-axis labels, one of them with a four-digit label, and a legend year.    *)

MaxPageWords == 9

\* one sequence of alternatives per place on the page
PageSlots ==
    << << Proto(<<"O", "c", "t">>, 50, 395, 70, 405) >>,
       << Proto(<<"N", "o", "v">>, 72, 401, 92, 411),
          Proto(<<"N", "o", "v">>, 72, 407, 92, 417) >>,
       << Proto(<<"D", "e", "c">>, 100, 395, 120, 405),
          Proto(<<"D", "e", "c">>, 100, 401, 120, 411) >>,
       << Proto(<<"J", "a", "n">>, 130, 401, 150, 411) >>,
       << Proto(<<"F", "e", "b">>, 160, 401, 180, 411) >>,
       << Proto(<<"M", "a", "r">>, 190, 395, 210, 405) >>,
       << Proto(<<"0">>, 36, 375, 49, 385) >>,
       << Proto(<<"5", "0", "0">>, 36, 175, 49, 185),
          Proto(<<"1", "0", "0", "0">>, 36, 175, 49, 185) >>,
       << Proto(<<"0">>, 58, 375, 71, 385) >>,
       << Proto(<<"5", "0", "0">>, 58, 175, 71, 185) >>,
       << Proto(<<"2", "0", "2", "3">>, 100, 145, 130, 155) >> >>

RECURSIVE PagesOver(_)
PagesOver(slots) ==
    IF slots = <<>> THEN {<<>>}
    ELSE LET rest == PagesOver(Tail(slots))
         IN  rest \cup {<<w>> \o r : w \in Range(Head(slots)), r \in rest}

FinderPages == {Numbered(q) : q \in {r \in PagesOver(PageSlots) : Len(r) <= MaxPageWords}}

---------------------------------------------------------------------------
(* Pages with two charts of the same horizontal layout, one below the      *)
(* other: each a row of 4 or 5 month labels under a column of two y-axis   *)
(* labels, with or without a legend year, the lower chart RowGaps pixels   *)
(* below the upper one, the words listed chart by chart or interleaved.    *)

RowGaps == {11, 20, 300}

RowLengths == {4, 5}

StackedChart(dy, n, withLegend) ==
    SubSeq(<< Proto(<<"O", "c", "t">>, 50, 395 + dy, 70, 405 + dy),
              Proto(<<"N", "o", "v">>, 80, 395 + dy, 100, 405 + dy),
              Proto(<<"D", "e", "c">>, 110, 395 + dy, 130, 405 + dy),
              Proto(<<"J", "a", "n">>, 140, 395 + dy, 160, 405 + dy),
              Proto(<<"F", "e", "b">>, 170, 395 + dy, 190, 405 + dy) >>, 1, n)
    \o << Proto(<<"0">>, 36, 375 + dy, 49, 385 + dy),
          Proto(<<"5", "0", "0">>, 36, 175 + dy, 49, 185 + dy) >>
    \o (IF withLegend THEN << Proto(<<"2", "0", "2", "3">>, 100, 145 + dy, 130, 155 + dy) >>
        ELSE <<>>)

\* a[1], b[1], a[2], b[2], ... for two sequences of one length
Interleave(a, b) ==
    [k \in 1 .. 2 * Len(a) |-> IF k % 2 = 1 THEN a[(k + 1) \div 2] ELSE b[k \div 2]]

StackedPages ==
    {Numbered(q) :
        q \in UNION {LET upper == StackedChart(0, n, lg)
                         lower == StackedChart(gap, n, lg)
                     IN  {upper \o lower, lower \o upper, Interleave(upper, lower)} :
                     gap \in RowGaps, n \in RowLengths, lg \in BOOLEAN}}

---------------------------------------------------------------------------
(* A run of findChartCandidates, one step per iteration of the outer loop. *)

FindInit ==
    /\ pc = "find.start"
    /\ words \in FinderPages \cup StackedPages
    /\ potentialMonths = <<>> /\ i = 0 /\ monthGroup = <<>> /\ candidates = <<>>
    /\ ClassIdle /\ DetectIdle /\ ProcIdle

\* lines 305-312
FindBegin ==
    /\ pc = "find.start"
    /\ pc' = "find.loop"
    /\ potentialMonths' = potentialMonthsOf(words)
    /\ i' = 1
    /\ candidates' = <<>>
    /\ UNCHANGED <<words, monthGroup>>
    /\ UNCHANGED <<classVars, detectVars, procVars>>

\* lines 315-358, the iteration for potentialMonths[i]
FindIterate ==
    /\ pc = "find.loop"
    /\ i <= Len(potentialMonths)
    /\ monthGroup' = MonthGroupAt(potentialMonths, i)
    /\ candidates' = CandidatesAfter(words, potentialMonths, i, candidates)
    /\ i' = i + 1
    /\ UNCHANGED <<pc, words, potentialMonths>>
    /\ UNCHANGED <<classVars, detectVars, procVars>>

\* lines 360-361
FindReturn ==
    /\ pc = "find.loop"
    /\ i > Len(potentialMonths)
    /\ pc' = "find.done"
    /\ UNCHANGED findVars
    /\ UNCHANGED <<classVars, detectVars, procVars>>

FindNext ==
    \/ FindBegin
    \/ FindIterate
    \/ FindReturn

SpecFind == FindInit /\ [][FindNext]_vars

---------------------------------------------------------------------------
(* Properties of the bar scanner and of the calibration *)

ScanStates == {"detect.scan", "detect.spinning", "detect.fulfilled"}

\* the pixel (x, y) of the image is dark; no pixel outside the image is
DarkAt(img, x, y) ==
    /\ 0 <= x /\ x < img.width /\ 0 <= y /\ y < img.height
    /\ isDarkPixel(img, Num((y * img.width + x) * 4))

\* the rows a column scan covers: above chartArea.y0, down to the zero line
ScanRows(k) ==
    IF IsFinite(k.zeroLineY) THEN (Floor(k.yMax.y).n + 1) .. Floor(k.zeroLineY).n ELSE {}

DarkRows(img, x, k) == {y \in ScanRows(k) : DarkAt(img, x, y)}

\* the highest dark row of the column (the smallest y)
TopDarkRow(img, x, k) ==
    CHOOSE t \in DarkRows(img, x, k) : \A y \in DarkRows(img, x, k) : t <= y

\* the column is dark on every row from its top dark row down to the zero
\* line, and background above
IsBarColumn(img, x, k) ==
    /\ DarkRows(img, x, k) # {}
    /\ DarkRows(img, x, k) = TopDarkRow(img, x, k) .. Floor(k.zeroLineY).n

\* the y-axis words are t1 centred at y = 300 and t2 centred at y = 100
HasLabels(ch, t1, t2) ==
    /\ Len(ch.yAxis) = 2
    /\ ch.yAxis[1].text = t1 /\ getCenter(ch.yAxis[1].bbox).y = Num(300)
    /\ ch.yAxis[2].text = t2 /\ getCenter(ch.yAxis[2].bbox).y = Num(100)

ColumnOf(q, s) == ScanX(chart.months[q], s - 1, NumYears(chart)).n

Columns == {qs \in (DOMAIN usageData) \X (1 .. NumYears(chart)) : TRUE}

ValueOf(q, s) == usageData[q].usage[s].value

\* C1 (the claim as stated): when the run has returned, every scan column that
\* is dark from a top row t down to the zero line and background above t has
\* the value round((zeroLineY - t) * valuePerPixel); in the instance of the
\* claim the value is 250.
C1_BarTopGivesValue ==
    pc = "detect.fulfilled" =>
        \A qs \in Columns :
            IsBarColumn(image, ColumnOf(qs[1], qs[2]), cal) =>
                ValueOf(qs[1], qs[2]) =
                    Round(Mul(Sub(cal.zeroLineY,
                                  Num(TopDarkRow(image, ColumnOf(qs[1], qs[2]), cal))),
                              cal.valuePerPixel))

\* C2 (the claim as stated): with labels 100 at y = 300 and 500 at y = 100 the
\* zero line is computed at y = 340.
C2_ZeroLineAt340 ==
    (pc \in ScanStates /\ HasLabels(chart, <<"1", "0", "0">>, <<"5", "0", "0">>)) =>
        cal.zeroLineY = Num(340)

\* C2 (amended): with labels 100 at y = 300 and 500 at y = 100 the zero line is
\* computed below y = 300, at y = 350, the scale is 2 units per pixel, and
\* every value recorded is measured from that line: round((350 - top) * 2) for
\* the row the scan took as the bar's edge, 0 when it took none.
C2_ZeroLineAt350 ==
    (pc \in ScanStates /\ HasLabels(chart, <<"1", "0", "0">>, <<"5", "0", "0">>)) =>
        /\ cal.zeroLineY = Num(350)
        /\ Gt(cal.zeroLineY, Num(300))
        /\ cal.valuePerPixel = Num(2)
        /\ \A qs \in Columns :
              LET top == BarTopY(image, Num(ColumnOf(qs[1], qs[2])), cal)
              IN  ValueOf(qs[1], qs[2]) =
                      IF top = Num(-1) THEN Num(0) ELSE Num(2 * (350 - top.n))

\* C2 witness: the instance has returned with a block whose lower edge is at
\* y = 250 measured as 200 units (100 rows above the line at 350; 50 rows
\* above y = 300).
C2_Witness ==
    /\ pc = "detect.fulfilled"
    /\ HasLabels(chart, <<"1", "0", "0">>, <<"5", "0", "0">>)
    /\ image = BlockImage
    /\ ValueOf(1, 1) = Num(200)

\* value(y) = (zeroLineY - y) * valuePerPixel
ValueAtRow(k, y) == Mul(Sub(k.zeroLineY, y), k.valuePerPixel)

ParsedValues(ch) == {YValues(ch)[k].value.n : k \in DOMAIN YValues(ch)}

RoundTrip(k) ==
    /\ Gt(k.valuePerPixel, Num(0))
    /\ \A v \in ParsedValues(chart) : k.yMin.value.n <= v /\ v <= k.yMax.value.n
    /\ ValueAtRow(k, k.yMax.y) = k.yMax.value
    /\ ValueAtRow(k, k.yMin.y) = k.yMin.value

C4_DistinctValuesBeforeScan ==
    /\ Cardinality(ParsedValues(chart)) < 2 => pc \notin ScanStates
    /\ pc \in ScanStates => Gt(cal.yMax.value, cal.yMin.value)

\* C10 (the claim as stated): when the run has returned with a valid
\* calibration, no value is negative, and a column none of whose pixels is
\* dark (a column outside the buffer has no pixel at all) has the value 0.
C10_BlankColumnGivesZero ==
    (pc = "detect.fulfilled" /\ Gt(cal.yMax.value, cal.yMin.value)) =>
        \A qs \in Columns :
            /\ ~Lt(ValueOf(qs[1], qs[2]), Num(0))
            /\ (\A y \in 0 .. image.height - 1 : ~DarkAt(image, ColumnOf(qs[1], qs[2]), y))
                   => ValueOf(qs[1], qs[2]) = Num(0)

---------------------------------------------------------------------------
(* Properties of the candidate finder and of the word classifier *)

WordIds(ws) == {ws[k].id : k \in DOMAIN ws}

\* C5 (the claim as stated): no word is in the months of two candidates.
C5_MonthsDisjoint ==
    \A q1, q2 \in DOMAIN candidates :
        q1 # q2 => WordIds(candidates[q1].months) \cap WordIds(candidates[q2].months) = {}

\* the y-axis labels available to a group: the number words aligned with its
\* first word and left of it
LabelsFor(group) == AssociatedYAxis(potentialYAxisOf(words), group)

\* C6: every candidate has at least 4 month words and at least 2 y-axis words,
\* and the group of the iteration just run, when it has 3 words or fewer, has
\* given no candidate (no candidate starts with its first word).
C6_MinimumSizes ==
    /\ \A q \in DOMAIN candidates :
          Len(candidates[q].months) >= 4 /\ Len(candidates[q].yAxis) >= 2
    /\ (monthGroup # <<>> /\ Len(monthGroup) <= 3) =>
          \A q \in DOMAIN candidates : candidates[q].months[1].id # monthGroup[1].id

\* C6 witness: a candidate has been pushed, and the iteration just run formed
\* a group of exactly 3 month words that has 2 y-axis labels available and
\* gave no candidate.
C6_Witness ==
    /\ Len(candidates) = 1
    /\ Len(monthGroup) = 3
    /\ \A k \in DOMAIN monthGroup : Len(KeepLowerLetters(toLowerCase(monthGroup[k].text))) = 3
    /\ Len(LabelsFor(monthGroup)) >= 2
    /\ ~includes(candidates[1].months, monthGroup[1])

\* the alphabetic-only lowercase form has at least 3 letters and is a prefix
\* of, or equal to, a three-letter month abbreviation
IsMonthLabel(t) ==
    LET form == KeepLowerLetters(toLowerCase(t))
    IN  Len(form) >= 3 /\ \E k \in DOMAIN MONTHS : startsWith(MONTHS[k], form)

\* C7 (the claim as stated): isMonth answers true exactly for the month labels;
\* a text with fewer than 3 letters is never one.
C7_MonthIffAbbreviation ==
    pc = "classify.done" => (verdict.month <=> IsMonthLabel(text))

---------------------------------------------------------------------------
(* processChart under callOllama: one step per await.  The page read by    *)
(* worker.recognize holds up to MaxCharts charts, each four month labels   *)
(* under a column of two y-axis labels; chart j is drawn 100 pixels right  *)
(* of and 300 pixels below chart j - 1, so no chart's labels line up with  *)
(* another chart's months.                                                  *)

MaxCharts == 2

\* the y-axis labels of a chart: readable and distinct, not integers, equal,
\* or none at all
LabelKinds == {"good", "unreadable", "flat", "none"}

LabelPair(kind) ==
    IF kind = "good" THEN << <<"0">>, <<"5", "0", "0">> >>
    ELSE IF kind = "unreadable" THEN << <<".", "5">>, <<".", "5">> >>
    ELSE << <<"1", "0", "0">>, <<"1", "0", "0">> >>

ChartWords(j, kind) ==
    LET dx == 100 * j
        dy == 300 * j
    IN  << Proto(<<"O", "c", "t">>, 50 + dx, 395 + dy, 70 + dx, 405 + dy),
           Proto(<<"N", "o", "v">>, 80 + dx, 395 + dy, 100 + dx, 405 + dy),
           Proto(<<"D", "e", "c">>, 110 + dx, 395 + dy, 130 + dx, 405 + dy),
           Proto(<<"J", "a", "n">>, 140 + dx, 395 + dy, 160 + dx, 405 + dy) >>
        \o (IF kind = "none" THEN <<>>
            ELSE << Proto(LabelPair(kind)[1], 36 + dx, 375 + dy, 49 + dx, 385 + dy),
                    Proto(LabelPair(kind)[2], 36 + dx, 175 + dy, 49 + dx, 185 + dy) >>)

RECURSIVE PageOf(_)
PageOf(kinds) ==
    IF kinds = <<>> THEN <<>>
    ELSE PageOf(SubSeq(kinds, 1, Len(kinds) - 1))
             \o ChartWords(Len(kinds) - 1, Last(kinds))

\* allWords, as worker.recognize may give them
ProcPages == {Numbered(PageOf(kinds)) : kinds \in SeqsUpTo(LabelKinds, MaxCharts)}

PageWidth == 200 + 100 * MaxCharts

PageHeight == 200 + 300 * MaxCharts

\* a dark block over the first month of every chart, ending 80 rows above the
\* zero line
BlockOver(j) == Rect(55 + 100 * j, 65 + 100 * j, 200 + 300 * j, 300 + 300 * j, Black)

ProcBlankImage == [width |-> PageWidth, height |-> PageHeight, rects |-> <<>>]

ProcBlockImage == [width |-> PageWidth, height |-> PageHeight,
                   rects |-> [j \in 1 .. MaxCharts |-> BlockOver(j - 1)]]

ProcImages == {ProcBlankImage, ProcBlockImage}

procUnused == <<text, verdict, potentialMonths, i, monthGroup, chart, cal, m,
                usageData, thrown, firstRun, fusionVars, appVars>>

\* callOllama has called runOcr and processChart (lines 245-248 of aiService)
\* and processChart is at its first statement
ProcInit ==
    /\ pc = "proc.start"
    /\ image \in ProcImages
    /\ worker = "none" /\ c = 0 /\ outcome = <<>> /\ processedCharts = <<>>
    /\ logs = <<>> /\ chartPromise = "pending" /\ returned = <<>>
    /\ ollama = "awaiting" /\ firstRun = NoRun
    /\ FusionIdle /\ AppIdle
    /\ words = <<>> /\ candidates = <<>>
    /\ ClassIdle
    /\ potentialMonths = <<>> /\ i = 0 /\ monthGroup = <<>>
    /\ chart = NoChart /\ cal = NoCal /\ m = 0 /\ usageData = <<>> /\ thrown = ""

\* lines 460-464: createWorker resolves
CreateWorkerResolves ==
    /\ pc = "proc.start"
    /\ logs' = Append(logs, "INFO")
    /\ worker' = "created"
    /\ pc' = "proc.recognize"
    /\ UNCHANGED <<words, candidates, image, c, outcome, processedCharts,
                   chartPromise, returned, ollama, procUnused>>

\* lines 460-464: createWorker rejects; the await is outside the try, so the
\* promise processChart returned is rejected
CreateWorkerRejects ==
    /\ pc = "proc.start"
    /\ logs' = Append(logs, "INFO")
    /\ chartPromise' = "rejected"
    /\ pc' = "proc.settled"
    /\ UNCHANGED <<words, candidates, image, worker, c, outcome, processedCharts,
                   returned, ollama, procUnused>>

\* mutant of NoCandidates: an empty list is taken for a failure of the engine
NoCandidates_IsFailure ==
    /\ logs' = Append(logs, "ERROR")
    /\ returned' = <<>>
    /\ pc' = "proc.finally"
    /\ c' = c

\* lines 482-485: no candidate, return []
NoCandidates ==
    /\ logs' = Append(logs, "INFO")
    /\ returned' = <<>>
    /\ pc' = "proc.finally"
    /\ c' = c

\* lines 468-488: recognize resolves, the candidates are found
RecognizeResolves ==
    /\ pc = "proc.recognize"
    /\ \E page \in ProcPages :
          /\ words' = page
          /\ candidates' = findChartCandidates(page)
          /\ IF candidates' = <<>>
             THEN NoCandidates
             ELSE /\ c' = 1
                  /\ pc' = "proc.loop"
                  /\ UNCHANGED <<logs, returned>>
    /\ UNCHANGED <<image, worker, outcome, processedCharts, chartPromise, ollama,
                   procUnused>>

\* lines 468, 501-505: recognize rejects, the outer catch returns []
RecognizeRejects ==
    /\ pc = "proc.recognize"
    /\ logs' = Append(logs, "ERROR")
    /\ returned' = <<>>
    /\ pc' = "proc.finally"
    /\ UNCHANGED <<words, candidates, image, worker, c, outcome, processedCharts,
                   chartPromise, ollama, procUnused>>

\* lines 491-492: the await resolves and the chart is pushed
CandidateFulfilled(chartData) ==
    /\ processedCharts' = Append(processedCharts, chartData)
    /\ outcome' = Append(outcome, "fulfilled")
    /\ c' = c + 1
    /\ UNCHANGED <<pc, logs, returned>>

\* the catch of lines 493-495 gone: the error reaches the catch of line 501
CandidateRejected_Propagates ==
    /\ outcome' = Append(outcome, "rejected")
    /\ logs' = Append(logs, "ERROR")
    /\ returned' = <<>>
    /\ pc' = "proc.finally"
    /\ UNCHANGED <<c, processedCharts>>

\* lines 493-495: the await rejects, the error is logged, the loop goes on
CandidateRejected ==
    /\ outcome' = Append(outcome, "rejected")
    /\ logs' = Append(logs, "ERROR")
    /\ c' = c + 1
    /\ UNCHANGED <<pc, processedCharts, returned>>

\* line 491: the await never resumes, because img.onload never fires (line
\* 381) or because the scan loop never ends (line 429)
CandidatePending(at) ==
    /\ pc' = (IF at = "onload" THEN "proc.waiting" ELSE "proc.spinning")
    /\ UNCHANGED <<c, outcome, processedCharts, logs, returned>>

\* lines 489-496: one iteration of the candidate loop
ProcessCandidate ==
    /\ pc = "proc.loop"
    /\ c <= Len(candidates)
    /\ \E e \in DetectEnvs :
          LET r == detectBarsForChart(image, candidates[c], e)
          IN  CASE r.state = "fulfilled" -> CandidateFulfilled(r.value)
                [] r.state = "rejected" -> CandidateRejected
                [] r.state = "pending" -> CandidatePending(r.at)
    /\ UNCHANGED <<words, candidates, image, worker, chartPromise, ollama, procUnused>>

\* lines 498-499: the loop is over
LoopEnds ==
    /\ pc = "proc.loop"
    /\ c > Len(candidates)
    /\ logs' = Append(logs, "INFO")
    /\ returned' = processedCharts
    /\ pc' = "proc.finally"
    /\ UNCHANGED <<words, candidates, image, worker, c, outcome, processedCharts,
                   chartPromise, ollama, procUnused>>

\* lines 506-508: terminate resolves, the promise is fulfilled with the
\* value returned
TerminateResolves ==
    /\ pc = "proc.finally"
    /\ worker' = "terminated"
    /\ chartPromise' = "fulfilled"
    /\ pc' = "proc.settled"
    /\ UNCHANGED <<words, candidates, image, c, outcome, processedCharts, logs,
                   returned, ollama, procUnused>>

\* lines 506-508: terminate rejects, and the rejection replaces the return
TerminateRejects ==
    /\ pc = "proc.finally"
    /\ worker' = "failed"
    /\ chartPromise' = "rejected"
    /\ pc' = "proc.settled"
    /\ UNCHANGED <<words, candidates, image, c, outcome, processedCharts, logs,
                   returned, ollama, procUnused>>

\* aiService lines 250-252: Promise.all resolves, callOllama goes on to the
\* fusion request
OllamaFusion ==
    /\ ollama = "awaiting"
    /\ chartPromise = "fulfilled"
    /\ ollama' = "fusion"
    /\ UNCHANGED <<pc, words, candidates, image, worker, c, outcome, processedCharts,
                   logs, chartPromise, returned, procUnused>>

\* aiService lines 250, 304-313: the chart promise is rejected, Promise.all
\* rejects, the catch rethrows
OllamaChartFailed ==
    /\ ollama = "awaiting"
    /\ chartPromise = "rejected"
    /\ ollama' = "failed.chart"
    /\ UNCHANGED <<pc, words, candidates, image, worker, c, outcome, processedCharts,
                   logs, chartPromise, returned, procUnused>>

\* aiService lines 179-182, 250, 304-313: runOcr rejects, Promise.all rejects,
\* the catch rethrows
OllamaOcrFailed ==
    /\ ollama = "awaiting"
    /\ ollama' = "failed.ocr"
    /\ UNCHANGED <<pc, words, candidates, image, worker, c, outcome, processedCharts,
                   logs, chartPromise, returned, procUnused>>

---------------------------------------------------------------------------
(* The fusion step of callOllama: the model's answer, the assignment of     *)
(* line 294, sanitizeAiResponse, the result.  A JSON object is the sequence *)
(* of its keys and values in insertion order.                               *)

IsLetter(ch) == ch \in Range(Upper) \cup Range(LowerCase)

RECURSIVE LetterPrefix(_)
LetterPrefix(s) ==
    IF s # <<>> /\ IsLetter(Head(s)) THEN <<Head(s)>> \o LetterPrefix(Tail(s))
    ELSE <<>>

\* s.replace(/_/g, '')
StripUnderscores(s) == SelectSeq(s, LAMBDA ch : ch # "_")

\* k.toLowerCase().replace(/_/g, '') of line 55
NormalKey(k) == StripUnderscores(toLowerCase(k))

KeyUsageCharts == <<"u", "s", "a", "g", "e", "C", "h", "a", "r", "t", "s">>

KeyUsageChartsSnake == <<"u", "s", "a", "g", "e", "_", "c", "h", "a", "r", "t", "s">>

KeyProperties == <<"p", "r", "o", "p", "e", "r", "t", "i", "e", "s">>

\* keyMap.usageCharts with its primary key first (lines 46, 53)
UsageChartsKeys ==
    << KeyUsageCharts, KeyUsageChartsSnake,
       <<"u", "s", "a", "g", "e", "_", "h", "i", "s", "t", "o", "r", "y">>,
       <<"g", "r", "a", "p", "h", "s">> >>

\* obj[key] !== undefined
HasKey(obj, key) == \E k \in DOMAIN obj : obj[k].key = key

\* obj[key]
GetKey(obj, key) == obj[CHOOSE k \in DOMAIN obj : obj[k].key = key].value

\* obj[key] = value: an existing key keeps its place, a new key goes last
SetKey(obj, key, value) ==
    IF HasKey(obj, key)
    THEN [k \in DOMAIN obj |-> IF obj[k].key = key THEN [key |-> key, value |-> value]
                                ELSE obj[k]]
    ELSE Append(obj, [key |-> key, value |-> value])

\* line 294: the model's usageCharts stay when they are a non-empty list
OverrideCharts(json, analyzedCharts) ==
    SetKey(json, KeyUsageCharts,
           IF HasKey(json, KeyUsageCharts) /\ Len(GetKey(json, KeyUsageCharts)) > 0
           THEN GetKey(json, KeyUsageCharts)
           ELSE analyzedCharts)

\* lines 52-61: the value of the first key of the object that spells one of
\* the names, whatever its case and underscores; found is FALSE for undefined
findValue(obj, keysToSearch) ==
    LET hits == {n \in DOMAIN keysToSearch :
                    \E k \in DOMAIN obj : NormalKey(obj[k].key) = NormalKey(keysToSearch[n])}
    IN  IF hits = {} THEN [found |-> FALSE, value |-> <<>>]
        ELSE LET n == CHOOSE x \in hits : \A y \in hits : x <= y
                 k == CHOOSE x \in DOMAIN obj :
                         /\ NormalKey(obj[x].key) = NormalKey(keysToSearch[n])
                         /\ \A y \in DOMAIN obj :
                               NormalKey(obj[y].key) = NormalKey(keysToSearch[n]) => x <= y
             IN  [found |-> TRUE, value |-> obj[k].value]

\* what follows the letters in /([a-zA-Z]{3,})\.?\s*,?\s*(\d{4})/ of line 95:
\* the four digits, or nothing when the text does not go on that way
YearAfter(s) ==
    LET a == IF s # <<>> /\ Head(s) = "." THEN Tail(s) ELSE s
        b == SkipSpaces(a)
        cc == IF b # <<>> /\ Head(b) = "," THEN Tail(b) ELSE b
        d == SkipSpaces(cc)
    IN  IF Len(d) >= 4 /\ \A k \in 1 .. 4 : IsDigit(d[k]) THEN SubSeq(d, 1, 4) ELSE <<>>

\* flatPoint.month.match(...) of line 95: the leftmost match, its letters
\* taken greedily
MonthYearMatch(t) ==
    LET from(p)  == SubSeq(t, p, Len(t))
        run(p)   == LetterPrefix(from(p))
        year(p)  == YearAfter(SubSeq(t, p + Len(run(p)), Len(t)))
        starts   == {p \in DOMAIN t : Len(run(p)) >= 3 /\ year(p) # <<>>}
    IN  IF starts = {} THEN [found |-> FALSE, month |-> <<>>, year |-> <<>>]
        ELSE LET p == CHOOSE x \in starts : \A y \in starts : x <= y
             IN  [found |-> TRUE, month |-> run(p), year |-> year(p)]

\* parseFloat(String(v)) || 0 of line 103, for a number v
ParseFloatOrZero(v) == IF isNaN(v) THEN Num(0) ELSE v

\* lines 88-106: the flat points grouped by month, in the order in which the
\* months first appear
RECURSIVE MonthMap(_, _)
MonthMap(points, acc) ==
    IF points = <<>> THEN acc
    ELSE LET flatPoint == Head(points)
             usable == /\ "month" \in DOMAIN flatPoint
                       /\ flatPoint.month # <<>>
                       /\ "value" \in DOMAIN flatPoint
             hit == IF usable THEN MonthYearMatch(flatPoint.month)
                    ELSE [found |-> FALSE, month |-> <<>>, year |-> <<>>]
             entry == [year |-> hit.year, value |-> ParseFloatOrZero(flatPoint.value)]
             next ==
                 IF ~hit.found THEN acc
                 ELSE IF \E k \in DOMAIN acc : acc[k].month = hit.month
                 THEN [k \in DOMAIN acc |->
                          IF acc[k].month = hit.month
                          THEN [acc[k] EXCEPT !.usage = Append(@, entry)]
                          ELSE acc[k]]
                 ELSE Append(acc, [month |-> hit.month, usage |-> <<entry>>])
         IN  MonthMap(Tail(points), next)

\* line 84
isNested(data) ==
    \A k \in DOMAIN data :
        /\ "month" \in DOMAIN data[k] /\ data[k].month # <<>>
        /\ "usage" \in DOMAIN data[k]

\* lines 76-107: charts without data are dropped, flat data is regrouped
SanitizeCharts(charts) ==
    LET kept == SelectSeq(charts, LAMBDA ch : "data" \in DOMAIN ch)
    IN  [k \in DOMAIN kept |->
            IF isNested(kept[k].data) THEN kept[k]
            ELSE [kept[k] EXCEPT !.data = MonthMap(kept[k].data, <<>>)]]

\* sanitizeAiResponse, its usageCharts: lines 31, 63-68, 76-108, 119.  The
\* loop of lines 70-74 adds nothing for usageCharts: it is a key of keyMap.
sanitizeAiResponse(rawJson) ==
    LET sourceData == IF HasKey(rawJson, KeyProperties) THEN GetKey(rawJson, KeyProperties)
                      ELSE rawJson
        value == findValue(sourceData, UsageChartsKeys)
    IN  IF value.found THEN SanitizeCharts(value.value) ELSE <<>>

ModelTitle == <<"M", "o", "d", "e", "l">>

ModelUnit == <<"k", "W", "h">>

\* a chart the model made up, in the nested form
ModelChart ==
    [title |-> ModelTitle, unit |-> ModelUnit,
     data |-> << [month |-> <<"J", "a", "n">>,
                  usage |-> << [year |-> <<"2", "0", "2", "3">>, value |-> Num(7)] >>] >>]

\* a chart the model made up, in the flat form
FlatChart ==
    [title |-> ModelTitle, unit |-> ModelUnit,
     data |-> << [month |-> <<"J", "a", "n", " ", "2", "0", "2", "3">>, value |-> Num(7)],
                 [month |-> <<"F", "e", "b">>, value |-> Num(1)],
                 [month |-> <<"J", "a", "n", ".", ",", " ", "2", "0", "2", "4">>,
                  value |-> NaN] >>]

\* a chart without data
NoDataChart == [title |-> ModelTitle, unit |-> ModelUnit]

Pair(key, value) == [key |-> key, value |-> value]

\* JSON.parse(finalContent): objects the model may answer with
FusionAnswers ==
    { <<>>,
      << Pair(KeyUsageCharts, <<>>) >>,
      << Pair(KeyUsageCharts, <<ModelChart>>) >>,
      << Pair(KeyUsageCharts, <<FlatChart>>) >>,
      << Pair(KeyUsageCharts, <<NoDataChart>>) >>,
      << Pair(KeyUsageChartsSnake, <<ModelChart>>) >>,
      << Pair(KeyProperties, << Pair(KeyUsageCharts, <<ModelChart>>) >>) >> }

\* aiService lines 285-302: the fusion request is answered, the answer is
\* parsed, line 294 settles usageCharts, the result is sanitized (the values
\* of the model are numbers, which postProcessData leaves alone) and returned
FusionResponds ==
    /\ ollama = "fusion"
    /\ \E answer \in FusionAnswers :
          /\ finalJson' = OverrideCharts(answer, returned)
          /\ parsedData' = sanitizeAiResponse(finalJson')
    /\ ollama' = "returned"
    /\ UNCHANGED <<pc, words, candidates, image, worker, c, outcome, processedCharts,
                   logs, chartPromise, returned, text, verdict, potentialMonths, i,
                   monthGroup, chart, cal, m, usageData, thrown, firstRun, appVars>>

\* aiService lines 285-290, 304-313: the request fails, the answer is not
\* ok or its content is not JSON; the catch rethrows
FusionFails ==
    /\ ollama = "fusion"
    /\ ollama' = "failed.fusion"
    /\ UNCHANGED <<pc, words, candidates, image, worker, c, outcome, processedCharts,
                   logs, chartPromise, returned, procUnused>>

Next ==
    \/ CreateWorkerResolves
    \/ CreateWorkerRejects
    \/ RecognizeResolves
    \/ RecognizeRejects
    \/ ProcessCandidate
    \/ LoopEnds
    \/ TerminateResolves
    \/ TerminateRejects
    \/ OllamaFusion
    \/ OllamaChartFailed
    \/ OllamaOcrFailed
    \/ FusionResponds
    \/ FusionFails

Init == ProcInit

Spec == Init /\ [][Next]_vars

---------------------------------------------------------------------------
(* Properties of processChart *)

TitleOf(id) == <<"U", "s", "a", "g", "e", " ", "C", "h", "a", "r", "t", " ">>
                   \o DecimalText(id)

\* the ids of the candidates whose scan was fulfilled, in candidate order
FulfilledIds ==
    LET ids == [k \in DOMAIN outcome |-> candidates[k].id]
        RECURSIVE Keep(_)
        Keep(k) == IF k > Len(outcome) THEN <<>>
                   ELSE IF outcome[k] = "fulfilled" THEN <<ids[k]>> \o Keep(k + 1)
                   ELSE Keep(k + 1)
    IN  Keep(1)

\* C8: when processChart returns after the candidate loop, every candidate
\* has been scanned, and the result holds exactly the charts of the candidates
\* whose scan succeeded, in increasing candidate id, the failed ones omitted.
C8_FailureIsolation ==
    (pc \in {"proc.finally", "proc.settled"} /\ candidates # <<>>) =>
        /\ Len(outcome) = Len(candidates)
        /\ \A k \in 1 .. Len(candidates) - 1 : candidates[k].id < candidates[k + 1].id
        /\ Len(returned) = Len(FulfilledIds)
        /\ \A k \in DOMAIN returned : returned[k].title = TitleOf(FulfilledIds[k])

\* C8 witness: processChart has returned one chart, that of the second
\* candidate, after the scan of the first candidate raised an error.
C8_Witness ==
    /\ pc = "proc.settled" /\ chartPromise = "fulfilled"
    /\ outcome = <<"rejected", "fulfilled">>
    /\ Len(returned) = 1
    /\ returned[1].title = TitleOf(candidates[2].id)

\* C9: the promise processChart returned is never rejected, and callOllama
\* never fails because of it.
C9_NeverRejects ==
    /\ chartPromise # "rejected"
    /\ ollama # "failed.chart"

---------------------------------------------------------------------------
(* Further properties of the candidate finder *)

Owned(word) == \E q \in DOMAIN candidates : includes(candidates[q].months, word)

\* the group the outer loop forms for potentialMonths[k] was examined (its
\* first word is in no candidate), has more than 3 words, and has fewer than
\* 2 qualifying y-axis labels
DiscardedGroup(k) ==
    LET group == MonthGroupAt(potentialMonths, k)
    IN  Len(group) > 3 /\ ~Owned(group[1]) /\ Len(LabelsFor(group)) < 2

\* C11 (the claim as stated): when findChartCandidates has returned, no word
\* of a group of more than 3 month words that had fewer than 2 qualifying
\* y-axis labels is in the months of any candidate.
C11_DiscardedGroupStaysOut ==
    pc = "find.done" =>
        \A k \in DOMAIN potentialMonths :
            DiscardedGroup(k) =>
                \A w \in Range(MonthGroupAt(potentialMonths, k)) : ~Owned(w)

\* the top edges of the rows of month labels of a page
RowTops(ws) == {ws[k].bbox.y0 : k \in {j \in DOMAIN ws : IsMonthLabel(ws[j].text)}}

\* the month labels of the row whose top edge is t
RowIds(ws, t) == {ws[k].id : k \in {j \in DOMAIN ws : IsMonthLabel(ws[j].text)
                                                      /\ ws[j].bbox.y0 = t}}

\* C12: for two stacked charts of the same horizontal layout, each with at
\* least 4 aligned month labels and 2 qualifying y-axis labels, whose rows are
\* more than the alignment tolerance apart, findChartCandidates returns
\* exactly two candidates, and their months are the two rows, one each.
C12_StackedChartsGiveTwo ==
    (pc = "find.done" /\ words \in StackedPages) =>
        /\ Len(candidates) = 2
        /\ Cardinality(RowTops(words)) = 2
        /\ {WordIds(candidates[q].months) : q \in DOMAIN candidates}
               = {RowIds(words, t) : t \in RowTops(words)}

\* C12 witness: two candidates returned for a page of two rows of 5 month
\* labels that are 11 pixels apart, the words of the lower chart listed first.
C12_Witness ==
    /\ pc = "find.done"
    /\ words \in StackedPages
    /\ Len(candidates) = 2
    /\ Len(candidates[1].months) = 5
    /\ candidates[1].months[1].bbox.y0 = 406
    /\ candidates[2].months[1].bbox.y0 = 395

---------------------------------------------------------------------------
(* Further properties of processChart *)

\* C13 (the claim as stated): processChart is never left waiting for a pixel
\* buffer that cannot be made ready, and a candidate whose scan was rejected
\* has been logged as an error and has no chart in the result.
C13_BufferFailureIsCaught ==
    /\ pc # "proc.waiting"
    /\ (pc = "proc.loop" /\ outcome # <<>> /\ Last(outcome) = "rejected") =>
           /\ Last(logs) = "ERROR"
           /\ Len(processedCharts) = Len(FulfilledIds)

---------------------------------------------------------------------------
(* Further properties of the bar scanner *)

MaxOf(a, b) == IF a >= b THEN a ELSE b

\* C14: when detectBarsForChart has returned, data has one entry per month
\* word, in the candidate's month order, which is left to right; every usage
\* has max(1, legend.length) items, labelled with the legend words in legend
\* order, or with "Year 1" when the legend is empty.
C14_OutputShape ==
    pc = "detect.fulfilled" =>
        /\ Len(usageData) = Len(chart.months)
        /\ \A q \in 1 .. Len(chart.months) - 1 :
              chart.months[q].bbox.x0 <= chart.months[q + 1].bbox.x0
        /\ \A q \in DOMAIN usageData :
              /\ usageData[q].month = chart.months[q].text
              /\ Len(usageData[q].usage) = MaxOf(1, Len(chart.legend))
              /\ \A s \in DOMAIN usageData[q].usage :
                    usageData[q].usage[s].year =
                        IF chart.legend = <<>> THEN <<"Y", "e", "a", "r", " ", "1">>
                        ELSE chart.legend[s].text

\* C14 witness: a run has returned for a candidate with two legend years, and
\* the first month's usage is labelled 2023 and 2024.
C14_Witness ==
    /\ pc = "detect.fulfilled"
    /\ Len(chart.legend) = 2
    /\ Len(usageData) = 4
    /\ usageData[1].usage[1].year = <<"2", "0", "2", "3">>
    /\ usageData[1].usage[2].year = <<"2", "0", "2", "4">>

---------------------------------------------------------------------------
(* Two runs of candidate finding and bar scanning, one after the other, on *)
(* the same words and the same pixels.  A run whose scan never settles     *)
(* gives no output.                                                        *)

\* the pages whose two charts are 300 pixels apart
TwicePages == {p \in StackedPages : \E k \in DOMAIN p : p[k].bbox.y0 = 695}

twiceUnused == <<text, verdict, potentialMonths, i, monthGroup, chart, cal, m,
                 usageData, thrown, worker, logs, chartPromise, returned, ollama,
                 fusionVars, appVars>>

TwiceInit ==
    /\ pc = "twice.find"
    /\ words \in TwicePages
    /\ image \in ProcImages
    /\ candidates = <<>>
    /\ firstRun = NoRun
    /\ c = 0 /\ outcome = <<>> /\ processedCharts = <<>>
    /\ worker = "none" /\ logs = <<>> /\ chartPromise = "none" /\ returned = <<>>
    /\ ollama = "none"
    /\ FusionIdle /\ AppIdle
    /\ ClassIdle
    /\ potentialMonths = <<>> /\ i = 0 /\ monthGroup = <<>>
    /\ chart = NoChart /\ cal = NoCal /\ m = 0 /\ usageData = <<>> /\ thrown = ""

\* lines 304-362
TwiceFind ==
    /\ pc = "twice.find"
    /\ candidates' = findChartCandidates(words)
    /\ c' = 1
    /\ pc' = "twice.scan"
    /\ UNCHANGED <<words, image, outcome, processedCharts, firstRun, twiceUnused>>

\* lines 373-455, for the next candidate
TwiceScan ==
    /\ pc = "twice.scan"
    /\ c <= Len(candidates)
    /\ \E e \in DetectEnvs :
          LET r == detectBarsForChart(image, candidates[c], e)
          IN  CASE r.state = "fulfilled" ->
                     /\ processedCharts' = Append(processedCharts, r.value)
                     /\ outcome' = Append(outcome, "fulfilled")
                     /\ c' = c + 1
                     /\ pc' = pc
                [] r.state = "rejected" ->
                     /\ outcome' = Append(outcome, "rejected")
                     /\ c' = c + 1
                     /\ UNCHANGED <<pc, processedCharts>>
                [] r.state = "pending" ->
                     /\ pc' = "twice.hung"
                     /\ UNCHANGED <<c, outcome, processedCharts>>
    /\ UNCHANGED <<words, image, candidates, firstRun, twiceUnused>>

\* the first run is over; the second starts on the same words and pixels
TwiceAgain ==
    /\ pc = "twice.scan"
    /\ c > Len(candidates)
    /\ ~firstRun.done
    /\ firstRun' = [done |-> TRUE, candidates |-> candidates, outcome |-> outcome,
                    charts |-> processedCharts]
    /\ candidates' = <<>> /\ c' = 0 /\ outcome' = <<>> /\ processedCharts' = <<>>
    /\ pc' = "twice.find"
    /\ UNCHANGED <<words, image, twiceUnused>>

\* the second run is over
TwiceDone ==
    /\ pc = "twice.scan"
    /\ c > Len(candidates)
    /\ firstRun.done
    /\ pc' = "twice.done"
    /\ UNCHANGED <<words, image, candidates, c, outcome, processedCharts, firstRun,
                   twiceUnused>>

TwiceNext ==
    \/ TwiceFind
    \/ TwiceScan
    \/ TwiceAgain
    \/ TwiceDone

SpecTwice == TwiceInit /\ [][TwiceNext]_vars

\* the chart pushed for candidate k of a run, given what each scan did
ChartOfCandidate(charts, outcomes, k) ==
    charts[Cardinality({j \in 1 .. k : outcomes[j] = "fulfilled"})]

---------------------------------------------------------------------------
(* isDarkPixel alone, on the one pixel of a 1 x 1 canvas, over channel     *)
(* values on both sides of the threshold and both ends of the range.       *)

PixelLevels == {0, 239, 240, 255}

AlphaLevels == {0, 255}

OnePixel(r, g, b, a) ==
    [width |-> 1, height |-> 1, rects |-> <<Rect(0, 0, 0, 0, <<r, g, b, a>>)>>]

pixelUnused == <<text, words, potentialMonths, i, monthGroup, candidates, chart, cal,
                 m, usageData, thrown>>

PixelInit ==
    /\ pc = "pixel.start"
    /\ image \in {OnePixel(r, g, b, a) : r \in PixelLevels, g \in PixelLevels,
                                          b \in PixelLevels, a \in AlphaLevels}
    /\ verdict = <<>>
    /\ text = <<>>
    /\ FindIdle /\ ProcIdle
    /\ chart = NoChart /\ cal = NoCal /\ m = 0 /\ usageData = <<>> /\ thrown = ""

\* lines 366-371, for the pixel at index 0
PixelClassify ==
    /\ pc = "pixel.start"
    /\ verdict' = [dark |-> isDarkPixel(image, Num(0))]
    /\ pc' = "pixel.done"
    /\ UNCHANGED <<image, pixelUnused, procVars>>

PixelNext == PixelClassify

SpecPixel == PixelInit /\ [][PixelNext]_vars

\* near-white: R, G and B are all at or above the threshold
NearWhite(img) ==
    \A ch \in 1 .. 3 : img.rects[1].rgb[ch] >= DarkThreshold

\* C16 (the claim as stated): a pixel is classified dark exactly when it is
\* not near-white, whatever its alpha; (255, 0, 0) is dark.
C16_DarkIffNotNearWhite ==
    pc = "pixel.done" => (verdict.dark <=> ~NearWhite(image))

\* C17: when the page was read and findChartCandidates returned no candidate,
\* processChart returns the empty sequence, the candidate loop was never
\* entered (detectBarsForChart, which loads the image and scans the pixels,
\* was never called), and no ERROR entry was logged.
C17_NoCandidatesIsNoError ==
    (pc \in {"proc.finally", "proc.settled"} /\ words # <<>> /\ candidates = <<>>) =>
        /\ returned = <<>>
        /\ c = 0 /\ outcome = <<>> /\ processedCharts = <<>>
        /\ \A k \in DOMAIN logs : logs[k] # "ERROR"

\* C17 witness: processChart has returned for a page that holds a row of four
\* month labels and no y-axis label, and so no candidate.
C17_Witness ==
    /\ pc = "proc.settled" /\ chartPromise = "fulfilled"
    /\ Len(words) = 4
    /\ candidates = <<>>
    /\ returned = <<>>

\* C18 (the claim as stated): for every candidate that reaches the scan loop
\* the first row of a column scan, floor(zeroLineY), is not Infinity, from
\* which no number of steps down reaches the top of the chart area, and the
\* run is never in the loop that does not end.
C18_ScanTerminates ==
    pc \in ScanStates =>
        /\ Floor(cal.zeroLineY) # Infinity
        /\ pc # "detect.spinning"

\* C19 (the claim as stated): when the run has returned for a candidate with at
\* least 2 distinct y-axis values, every value is an integer from 0 to the
\* largest y-axis value.
C19_ValueWithinAxis ==
    (pc = "detect.fulfilled" /\ Cardinality(ParsedValues(chart)) >= 2) =>
        \A qs \in Columns :
            /\ IsFinite(ValueOf(qs[1], qs[2]))
            /\ ValueOf(qs[1], qs[2]).d = 1
            /\ ~Lt(ValueOf(qs[1], qs[2]), Num(0))
            /\ ~Gt(ValueOf(qs[1], qs[2]), cal.yMax.value)

\* C19 (amended): the same, for the candidates whose largest y-axis value is
\* not negative.
C19_ValueWithinAxisFromZero ==
    (/\ pc = "detect.fulfilled"
     /\ Cardinality(ParsedValues(chart)) >= 2
     /\ ~Lt(cal.yMax.value, Num(0))) =>
        \A qs \in Columns :
            /\ IsFinite(ValueOf(qs[1], qs[2]))
            /\ ValueOf(qs[1], qs[2]).d = 1
            /\ ~Lt(ValueOf(qs[1], qs[2]), Num(0))
            /\ ~Gt(ValueOf(qs[1], qs[2]), cal.yMax.value)

\* C19 witness: a run has returned a value above 0 for an axis that runs from
\* a negative label to a positive one.
C19_Witness ==
    /\ pc = "detect.fulfilled"
    /\ Lt(cal.yMin.value, Num(0))
    /\ Gt(cal.yMax.value, Num(0))
    /\ \E qs \in Columns : Gt(ValueOf(qs[1], qs[2]), Num(0))

\* C20 (the claim as stated): within a candidate no word is in two of its
\* months, yAxis and legend.
C20_RolesDisjoint ==
    \A q \in DOMAIN candidates :
        /\ WordIds(candidates[q].months) \cap WordIds(candidates[q].yAxis) = {}
        /\ WordIds(candidates[q].months) \cap WordIds(candidates[q].legend) = {}
        /\ WordIds(candidates[q].yAxis) \cap WordIds(candidates[q].legend) = {}

---------------------------------------------------------------------------
(* Where a candidate's y-axis labels lie *)

\* C21 (the claim as stated): every y-axis label of a candidate has its
\* vertical centre above (smaller than) the centre of that candidate's month
\* row, which is the y1 of its bounds.
C21_LabelsAboveMonthRow ==
    \A q \in DOMAIN candidates :
        \A k \in DOMAIN candidates[q].yAxis :
            Lt(getCenter(candidates[q].yAxis[k].bbox).y, candidates[q].bounds.y1)

---------------------------------------------------------------------------
(* Release of the OCR worker *)

\* C22 (the claim as stated): in every run of processChart that created the
\* worker, worker.terminate() is called once and before the promise settles.
\* A settled run has called it, and a run that has not called it yet can
\* still reach the finally block: it is not stopped at an await that never
\* resumes or in a loop that never ends.
C22_WorkerTerminatedOnce ==
    /\ (chartPromise # "pending" /\ worker # "none")
           => worker \in {"terminated", "failed"}
    /\ worker = "created" => pc \in {"proc.recognize", "proc.loop", "proc.finally"}

---------------------------------------------------------------------------
(* What callOllama returns as usageCharts *)

\* C23 (the claim as stated): the usageCharts of the result callOllama
\* returns are the charts processChart returned, whatever the model answered.
C23_ChartsAreProgrammatic ==
    ollama = "returned" => parsedData = returned

---------------------------------------------------------------------------
(* The App component: its state, its handlers and what the page shows.  A   *)
(* handler runs to its first await in one step and the page is rendered     *)
(* again before the next event; what follows an await is a step of its own. *)
(* A bill is its id and the number of edits the user made to it.            *)

\* prev.slice(0, 19) of line 117
HistoryKept == 19

MaxReads == 1

MaxAnalyses == 2

MaxBills == 2

MaxEdits == 1

Min(a, b) == IF a <= b THEN a ELSE b

\* the history read from localStorage (lines 24-32): n bills, newest first
StoredHistory(n) == [k \in 1 .. n |-> [id |-> n + 1 - k, rev |-> 0]]

StoredLengths == {0, HistoryKept, HistoryKept + 1}

appUnused == <<pc, classVars, findVars, detectVars, worker, c, outcome,
               processedCharts, logs, chartPromise, returned, firstRun, ollama,
               fusionVars>>

AppInit ==
    /\ pc = "app"
    /\ isLoading = FALSE /\ error = "" /\ capturedImage = "" /\ billData = NoBill
    /\ history \in {StoredHistory(n) : n \in StoredLengths}
    /\ analyses = 0 /\ reads = 0
    /\ now = HistoryKept + 1
    /\ ClassIdle /\ FindIdle /\ DetectIdle /\ WorkflowIdle

\* line 201: the upload and camera widgets are on the page
UploadShown == billData = NoBill /\ capturedImage = "" /\ ~isLoading

\* the Analyze button of line 217 without its test of isLoading
AnalyzeShown_WhileLoading == capturedImage # "" /\ billData = NoBill

\* line 217: the Analyze and Cancel buttons are on the page
AnalyzeShown == capturedImage # "" /\ billData = NoBill /\ ~isLoading

\* line 195: the error message and its button are on the page
ErrorShown == error # "" /\ ~isLoading

\* line 215: the bill is on display
BillShown == billData # NoBill /\ ~isLoading

\* lines 70-73: handleFileUpload up to its await
UploadFile ==
    /\ UploadShown
    /\ reads < MaxReads
    /\ error' = ""
    /\ reads' = reads + 1
    /\ UNCHANGED <<isLoading, capturedImage, billData, history, analyses, now, appUnused>>

\* lines 73-75: the file was read
ReadResolves ==
    /\ reads > 0
    /\ capturedImage' = "data:image"
    /\ reads' = reads - 1
    /\ UNCHANGED <<isLoading, error, billData, history, analyses, now, appUnused>>

\* lines 76-80: the file could not be read
ReadRejects ==
    /\ reads > 0
    /\ error' = "Failed to read the uploaded file."
    /\ reads' = reads - 1
    /\ UNCHANGED <<isLoading, capturedImage, billData, history, analyses, now, appUnused>>

\* lines 83-87: handleCameraCapture
CameraCapture ==
    /\ UploadShown
    /\ error' = ""
    /\ capturedImage' = "data:image"
    /\ UNCHANGED <<isLoading, billData, history, analyses, reads, now, appUnused>>

\* lines 89-109: handleAnalyzeBill up to its await.  The buttons that call it
\* are on the page only with an image (lines 197, 217), so the return of
\* lines 90-94 is not taken.
StartAnalysis(keyMissing) ==
    /\ capturedImage # ""
    /\ analyses < MaxAnalyses
    /\ now + analyses < HistoryKept + 1 + MaxBills
    /\ IF keyMissing
       THEN /\ error' = "Gemini API key is not configured."
            /\ UNCHANGED <<isLoading, analyses>>
       ELSE /\ isLoading' = TRUE
            /\ error' = ""
            /\ analyses' = analyses + 1
    /\ UNCHANGED <<capturedImage, billData, history, reads, now, appUnused>>

\* line 226: a click on Analyze Bill
ClickAnalyze ==
    /\ AnalyzeShown
    /\ \E keyMissing \in BOOLEAN : StartAnalysis(keyMissing)

\* line 197: a click on Try again while an image is held
ClickRetry ==
    /\ ErrorShown
    /\ capturedImage # ""
    /\ \E keyMissing \in BOOLEAN : StartAnalysis(keyMissing)

\* lines 146-150: resetState, from Try again without an image (line 197),
\* Cancel (line 223) or Analyze New (line 215)
ClickReset ==
    /\ \/ ErrorShown /\ capturedImage = ""
       \/ AnalyzeShown
       \/ BillShown
    /\ capturedImage' = ""
    /\ billData' = NoBill
    /\ error' = ""
    /\ UNCHANGED <<isLoading, history, analyses, reads, now, appUnused>>

\* the bills that stay behind the new one without the slice of line 117
KeptHistory_All(prev) == prev

\* prev.slice(0, 19) of line 117
KeptHistory(prev) == SubSeq(prev, 1, Min(Len(prev), HistoryKept))

\* lines 109-119, 124-126: analyzeBill resolves
AnalysisResolves ==
    /\ analyses > 0
    /\ LET newBill == [id |-> now + 1, rev |-> 0]
       IN  /\ billData' = newBill
           /\ history' = <<newBill>> \o KeptHistory(history)
    /\ now' = now + 1
    /\ capturedImage' = ""
    /\ isLoading' = FALSE
    /\ analyses' = analyses - 1
    /\ UNCHANGED <<error, reads, appUnused>>

\* lines 120-126: analyzeBill rejects
AnalysisRejects ==
    /\ analyses > 0
    /\ error' = "Analysis failed."
    /\ isLoading' = FALSE
    /\ analyses' = analyses - 1
    /\ UNCHANGED <<capturedImage, billData, history, reads, now, appUnused>>

\* the ids a click in the history list carries: the list is on the page at
\* all times (line 187); the clicks go to its newest bill and its oldest
ListedIds == {history[k].id : k \in DOMAIN history \cap {1, Len(history)}}

\* the user deletes from a list that is full or nearly full, or short
DeleteClicked == Len(history) >= HistoryKept \/ Len(history) <= MaxBills

\* lines 129-136: handleSelectHistory
SelectHistory ==
    /\ \E id \in ListedIds :
          /\ billData' = history[CHOOSE k \in DOMAIN history : history[k].id = id]
          /\ capturedImage' = ""
          /\ error' = ""
    /\ UNCHANGED <<isLoading, history, analyses, reads, now, appUnused>>

\* lines 138-144: handleDeleteHistory
DeleteHistory ==
    /\ DeleteClicked
    /\ \E id \in ListedIds :
          /\ history' = SelectSeq(history, LAMBDA item : item.id # id)
          /\ billData' = IF billData.id = id THEN NoBill ELSE billData
    /\ UNCHANGED <<isLoading, error, capturedImage, analyses, reads, now, appUnused>>

\* lines 152-157: handleBillDataUpdate with the bill on display as edited
handleBillDataUpdate ==
    /\ BillShown
    /\ billData.rev < MaxEdits
    /\ LET updatedBillData == [billData EXCEPT !.rev = @ + 1]
       IN  /\ billData' = updatedBillData
           /\ history' = [k \in DOMAIN history |->
                             IF history[k].id = updatedBillData.id THEN updatedBillData
                             ELSE history[k]]
    /\ UNCHANGED <<isLoading, error, capturedImage, analyses, reads, now, appUnused>>

AppNext ==
    \/ UploadFile
    \/ ReadResolves
    \/ ReadRejects
    \/ CameraCapture
    \/ ClickAnalyze
    \/ ClickRetry
    \/ ClickReset
    \/ AnalysisResolves
    \/ AnalysisRejects
    \/ SelectHistory
    \/ DeleteHistory
    \/ handleBillDataUpdate

SpecApp == AppInit /\ [][AppNext]_vars

\* C25: at most one call of analyzeBill is in flight, and one is in flight
\* exactly while isLoading is true, whatever the user clicks.
C25_OneAnalysisInFlight ==
    /\ analyses <= 1
    /\ isLoading <=> analyses = 1

\* C25 witness: a second analysis is in flight after an earlier one made a
\* bill, the image is held and no bill is on display, so that only the test
\* of isLoading keeps the Analyze button off the page.
C25_Witness ==
    /\ isLoading /\ analyses = 1
    /\ capturedImage # "" /\ billData = NoBill
    /\ now > HistoryKept + 1

\* C24 (the claim as stated): at the step that takes isLoading back to false,
\* exactly one of the two holds: the bill made by this analysis is on
\* display, or an error message is set.
C24_LoadingEndsWithOneOutcome ==
    [][(isLoading /\ ~isLoading')
          => ((billData'.id = now + 1) # (error' # ""))]_vars

====
